---- MODULE Spec2Model ----
(***************************************************************************)
(* State-machine model of task_templating.py: main_menu with the template  *)
(* replay (choice "2", create_tasks_from_template) and the template        *)
(* generation (choice "1", generate_task_template), with the remote        *)
(* service, the keyboard and the template files as the environment.        *)
(* Spec replays template files of any content; SpecRoundTrip starts with   *)
(* an empty templates directory and replays the files it generated.        *)
(*                                                                         *)
(* Encoding of Python / JSON values:                                       *)
(*   dict            a record whose DOMAIN is the set of keys present      *)
(*   list            a sequence                                            *)
(*   None (objects)  the record None; None (strings) the string NoneStr    *)
(*   a date string   [kind |-> "iso", ord, sec, zone]: proleptic ordinal   *)
(*                   day, second of the day and the zone designator        *)
(*                   written at its end ("" when there is none), or        *)
(*                   [kind |-> "text"] for a string that is not a date     *)
(*   datetime        [ord, sec, tz], tz = "naive" or the UTC offset        *)
(***************************************************************************)
EXTENDS Integers, Sequences, FiniteSets, TLC

VARIABLES
    pc,                 \* position of the single thread of control
    error,              \* type of the uncaught exception, "" when none
    API_KEY,            \* module global, line 8
    clock,              \* wall clock: seconds since this menu action began, at StartOrdinal 00:00
    log,                \* requests received by the remote service in this menu action
    sleeps,             \* arguments of the time.sleep calls of this menu action
    outcome,            \* what the remote service did with the request in flight
    workspace,          \* main_menu: workspace
    template,           \* main_menu: template
    due_date_delta,     \* create_tasks_from_template locals ...
    project_id,
    use_autoschedule,
    schedules,
    schedule_choice,
    selected_schedule,
    i,
    task_successes,
    task_failures,
    post_payload,
    response,
    project,            \* main_menu: project
    tasks,              \* main_menu: tasks
    templates_dir,      \* templates/: <<>>, or the file generate_task_template wrote last
    source_tasks        \* history: the tasks that file was generated from

vars == <<pc, error, API_KEY, clock, log, sleeps, outcome, workspace, template,
          due_date_delta, project_id, use_autoschedule, schedules,
          schedule_choice, selected_schedule, i, task_successes,
          task_failures, post_payload, response, project, tasks, templates_dir,
          source_tasks>>

(* Bounds of the model *)

MaxTasks == 2            \* longest tasks list of a template file

StartOrdinal == 739926   \* the day on which the process runs

LongRun == 10            \* length of the one long tasks list among the template files

(* Python values *)

None == [none |-> TRUE]
NoneStr == "<None>"

\* truth value of a dict or None
Truthy(v) == v # None /\ DOMAIN v # {}

\* truth value of a list
TruthyList(l) == Len(l) > 0

\* truth value of a str or None
TruthyStr(s) == s # NoneStr /\ s # ""

\* dict.get(key, default)
Get(d, key, default) == IF key \in DOMAIN d THEN d[key] ELSE default

\* str.lower() on the answers of the y/n prompts
Lower(s) == IF s = "Y" THEN "y" ELSE s

\* int(str): the decimal literals among the keyboard inputs of the model
IntLiterals == {"0", "1", "2", "3", "-1", "3000000"}

IntValue(s) ==
    CASE s = "0" -> 0
      [] s = "1" -> 1
      [] s = "2" -> 2
      [] s = "3" -> 3
      [] s = "-1" -> 0 - 1
      [] s = "3000000" -> 3000000

(* datetime *)

SecondsPerDay == 86400
MinOrdinal == 1              \* datetime.min is 0001-01-01
MaxOrdinal == 3652059        \* datetime.max is 9999-12-31
MaxDeltaDays == 999999999    \* timedelta.max.days

FallbackOrdinal == 739251    \* 2024-12-31
FallbackSecond == 86399      \* 23:59:59

IsoStr(ord, sec, zone) == [kind |-> "iso", ord |-> ord, sec |-> sec, zone |-> zone]

\* the literal "2024-12-31T23:59:59Z"
FALLBACK_DUE_DATE == IsoStr(FallbackOrdinal, FallbackSecond, "Z")

\* s.replace("Z", "+00:00")
ReplaceZ(s) ==
    IF s.kind = "iso" /\ s.zone = "Z" THEN [s EXCEPT !.zone = "+00:00"] ELSE s

\* datetime.fromisoformat(s) returns a value; otherwise it raises ValueError
\* (a trailing "Z" is not accepted before Python 3.11)
IsIsoFormat(s) == s.kind = "iso" /\ s.zone \in {"", "+00:00"}

fromisoformat(s) ==
    [ord |-> s.ord, sec |-> s.sec, tz |-> IF s.zone = "" THEN "naive" ELSE s.zone]

\* dt + timedelta(days=k) raises OverflowError
AddDaysOverflows(dt, k) ==
    \/ k > MaxDeltaDays \/ k < 0 - MaxDeltaDays
    \/ dt.ord + k < MinOrdinal \/ dt.ord + k > MaxOrdinal

\* dt + timedelta(days=k)
AddDays(dt, k) == [dt EXCEPT !.ord = dt.ord + k]

\* datetime.utcnow(): a naive datetime
utcnow == [ord |-> StartOrdinal + (clock \div SecondsPerDay),
           sec |-> clock % SecondsPerDay,
           tz  |-> "naive"]

\* dt.isoformat()
isoformat(dt) == IsoStr(dt.ord, dt.sec, IF dt.tz = "naive" THEN "" ELSE dt.tz)

\* s.replace("+00:00", "Z")
ReplaceUtcOffset(s) == IF s.zone = "+00:00" THEN [s EXCEPT !.zone = "Z"] ELSE s


(* The environment: keyboard inputs, template files, remote service *)

\* the key of the environment variable MOTION_API_KEY; NoneStr when unset
ApiKeys == {NoneStr, "", "secret"}

\* the workspace of the account
TheWorkspace == [id |-> "w1", name |-> "Home"]

\* decoded bodies of GET /workspaces
WorkspaceBodies == {[workspaces |-> <<TheWorkspace>>], [workspaces |-> <<>>], <<>>}

\* Task Spec entries a template file can hold
TaskSpecs ==
    { [name |-> "A", workspaceId |-> "w0", dueDate |-> IsoStr(FallbackOrdinal - 30, 0, "Z"),
       duration |-> 45, priority |-> "HIGH"],
      [name |-> "B", workspaceId |-> "w0", dueDate |-> [kind |-> "text"],
       duration |-> 45, priority |-> "LOW"],
      [name |-> "C", workspaceId |-> "w0", dueDate |-> None,
       duration |-> 45, priority |-> "LOW"],
      [name |-> "D", workspaceId |-> "w0", dueDate |-> IsoStr(FallbackOrdinal - 30, 0, ""),
       duration |-> 45],
      [name |-> "E", priority |-> "MEDIUM"] }

\* a template file with LongRun Task Specs
LongTemplate ==
    [tasks |-> [k \in 1..LongRun |->
                  [name |-> "A", workspaceId |-> "w0",
                   dueDate |-> IsoStr(FallbackOrdinal - 30, 0, "Z"),
                   duration |-> 45, priority |-> "HIGH"]]]

RECURSIVE SeqsUpTo(_, _)
\* the sequences over S of length at most n
SeqsUpTo(S, n) ==
    IF n = 0 THEN {<<>>}
    ELSE LET shorter == SeqsUpTo(S, n - 1)
         IN  shorter \cup {Append(q, x) : q \in {r \in shorter : Len(r) = n - 1}, x \in S}

\* what load_template can return: None (unreadable file, invalid JSON), {},
\* an object without the tasks key, an object with a tasks list
Templates ==
    {None, <<>>, [name |-> "untitled"]}
       \cup {[tasks |-> q] : q \in SeqsUpTo(TaskSpecs, MaxTasks)}
       \cup {LongTemplate}

OffsetInputs == {"", "2", "-1", "3000000", "abc", "1.5"}
YesNoInputs == {"y", "Y", "n", ""}
ProjectNameInputs == {"", "Launch"}
PriorityInputs == {"", "medium", "urgent"}
ScheduleInputs == {"", "0", "1", "2", "3", "abc"}

\* what the remote service does with a request
PostOutcomes == {"transport_fault", "http_error", "body_empty", "body_no_id", "body_id"}
GetOutcomes == {"transport_fault", "http_error", "body"}

\* the bare list returned by GET /schedules
ScheduleLists == {<<>>, <<[name |-> "Night"], [name |-> ""]>>}

\* the decoded body of a created resource
CreatedBody(o, id) ==
    CASE o = "body_empty" -> <<>>
      [] o = "body_no_id" -> [message |-> "accepted"]
      [] o = "body_id"    -> [id |-> id]

\* the project of the workspace
TheProject == [id |-> "p0", name |-> "Chores"]

\* decoded bodies of GET /projects
ProjectBodies == {[projects |-> <<TheProject>>], [projects |-> <<>>], [message |-> "none"]}

\* tasks as the remote service returns them
SourceTasks ==
    { [id |-> "t7", name |-> "X", dueDate |-> IsoStr(FallbackOrdinal - 10, 3600, "Z"),
       duration |-> 60, priority |-> "HIGH"],
      [id |-> "t8"],
      [id |-> "t9", name |-> "Y", dueDate |-> None, priority |-> "LOW"] }

\* decoded bodies of GET /tasks
TaskBodies ==
    {[message |-> "none"]} \cup {[tasks |-> q] : q \in SeqsUpTo(SourceTasks, MaxTasks)}

\* writing the template file succeeds or raises IOError
WriteOutcomes == {"written", "io_error"}

(* Remote Service Gateway *)

Request(method, url, body) ==
    [method |-> method, url |-> url, key |-> API_KEY, body |-> body, at |-> clock]

\* requests raises a RequestException: no connection, or raise_for_status
\* on a status that is not 2xx
RequestFails(o) == o \in {"transport_fault", "http_error"}

\* post_data: the decoded body, or None after a RequestException
post_data(o, id) == IF RequestFails(o) THEN None ELSE CreatedBody(o, id)

\* get_data: the decoded body, or None after a RequestException
get_data(o, body) == IF RequestFails(o) THEN None ELSE body

\* list_schedules: the listing when get_data returned a truthy value (a
\* list that is not empty), None otherwise
list_schedules(o, listing) ==
    IF ~RequestFails(o) /\ TruthyList(listing) THEN get_data(o, listing) ELSE None

\* response and "id" in response
HasId(r) == Truthy(r) /\ "id" \in DOMAIN r

(* Process start and main_menu *)

\* values of the locals of a menu action before they are assigned
Unassigned ==
    /\ workspace = None /\ template = None
    /\ due_date_delta = 0 /\ project_id = NoneStr /\ use_autoschedule = FALSE
    /\ schedules = None /\ schedule_choice = NoneStr /\ selected_schedule = NoneStr
    /\ i = 0 /\ task_successes = 0 /\ task_failures = 0
    /\ post_payload = None /\ response = None
    /\ log = <<>> /\ sleeps = <<>> /\ outcome = "none"
    /\ clock = 0
    /\ project = None /\ tasks = <<>>

\* the process starts; no template has been generated yet
Init ==
    /\ pc = "import"
    /\ error = ""
    /\ API_KEY \in ApiKeys
    /\ templates_dir = <<>>
    /\ source_tasks = <<>>
    /\ Unassigned

\* mutant of Import: the key is not looked at before the menu is shown
Import_KeyNotChecked ==
    /\ pc = "import"
    /\ pc' = "main_menu"
    /\ UNCHANGED <<error, API_KEY, templates_dir, source_tasks, project, tasks, clock, log, sleeps, outcome,
                   workspace, template,
                   due_date_delta, project_id, use_autoschedule, schedules,
                   schedule_choice, selected_schedule, i, task_successes,
                   task_failures, post_payload, response>>

\* lines 8-12: the module body reads the key and raises EnvironmentError without it
Import ==
    /\ pc = "import"
    /\ IF TruthyStr(API_KEY)
         THEN pc' = "main_menu" /\ error' = error
         ELSE pc' = "crashed" /\ error' = "EnvironmentError"
    /\ UNCHANGED <<API_KEY, templates_dir, source_tasks, project, tasks, clock, log, sleeps, outcome, workspace, template,
                   due_date_delta, project_id, use_autoschedule, schedules,
                   schedule_choice, selected_schedule, i, task_successes,
                   task_failures, post_payload, response>>

\* lines 376, 402-406: choice "3" leaves the loop, an unknown choice repeats the menu
MenuOther ==
    /\ pc = "main_menu"
    /\ \E choice \in {"3", "9"} :
         pc' = IF choice = "3" THEN "exited" ELSE "main_menu"
    /\ UNCHANGED <<error, API_KEY, templates_dir, source_tasks, project, tasks, clock, log, sleeps, outcome, workspace, template,
                   due_date_delta, project_id, use_autoschedule, schedules,
                   schedule_choice, selected_schedule, i, task_successes,
                   task_failures, post_payload, response>>

\* lines 385-387 with list_workspaces (50-76): choice "2" lists the workspaces and
\* has the user pick one; without a workspace the menu action ends
MenuReplay ==
    /\ pc = "main_menu"
    /\ \E o \in GetOutcomes, body \in WorkspaceBodies :
         /\ outcome' = o
         /\ log' = Append(log, Request("GET", "/workspaces", None))
         /\ LET workspaces_data == get_data(o, body)
            IN  IF ~Truthy(workspaces_data) \/ "workspaces" \notin DOMAIN workspaces_data
                  THEN workspace' = None /\ pc' = "returned"
                ELSE IF ~TruthyList(workspaces_data.workspaces)
                  THEN workspace' = None /\ pc' = "returned"
                  ELSE workspace' = workspaces_data.workspaces[1] /\ pc' = "load_template"
    /\ UNCHANGED <<error, API_KEY, templates_dir, source_tasks, project, tasks, clock, sleeps, template,
                   due_date_delta, project_id, use_autoschedule, schedules,
                   schedule_choice, selected_schedule, i, task_successes,
                   task_failures, post_payload, response>>

\* lines 388-393 with load_template (153-166): a file is chosen and read, and
\* create_tasks_from_template is called when the template is truthy
LoadTemplate ==
    /\ pc = "load_template"
    /\ \E t \in Templates :
         /\ template' = t
         /\ pc' = IF Truthy(t) THEN "validate" ELSE "returned"
    /\ UNCHANGED <<error, API_KEY, templates_dir, source_tasks, project, tasks, clock, log, sleeps, outcome, workspace,
                   due_date_delta, project_id, use_autoschedule, schedules,
                   schedule_choice, selected_schedule, i, task_successes,
                   task_failures, post_payload, response>>

\* line 370: the menu action is over, its locals are gone, the menu is shown again
BackToMenu ==
    /\ pc \in {"returned", "done"}
    /\ pc' = "main_menu"
    /\ workspace' = None /\ template' = None
    /\ due_date_delta' = 0 /\ project_id' = NoneStr /\ use_autoschedule' = FALSE
    /\ schedules' = None /\ schedule_choice' = NoneStr /\ selected_schedule' = NoneStr
    /\ i' = 0 /\ task_successes' = 0 /\ task_failures' = 0
    /\ post_payload' = None /\ response' = None
    /\ log' = <<>> /\ sleeps' = <<>> /\ outcome' = "none"
    /\ clock' = 0
    /\ project' = None /\ tasks' = <<>>
    /\ UNCHANGED <<error, API_KEY, templates_dir, source_tasks>>

(* Template files *)

\* the keys of task_post_data in insertion order, lines 126-132
TaskSpecKeys == <<"name", "workspaceId", "dueDate", "duration", "priority">>

\* mutant of task_post_data: the default due date stands in for a null one too
task_post_data_DefaultsForNull(ws, task) ==
    [name        |-> Get(task, "name", ""),
     workspaceId |-> ws.id,
     dueDate     |-> IF Get(task, "dueDate", None) = None
                       THEN FALLBACK_DUE_DATE ELSE task.dueDate,
     duration    |-> Get(task, "duration", 30),
     priority    |-> Get(task, "priority", "MEDIUM")]

\* lines 126-132
task_post_data(ws, task) ==
    [name        |-> Get(task, "name", ""),
     workspaceId |-> ws.id,
     dueDate     |-> Get(task, "dueDate", FALLBACK_DUE_DATE),
     duration    |-> Get(task, "duration", 30),
     priority    |-> Get(task, "priority", "MEDIUM")]

\* lines 124-137: the template built by generate_task_template
generate_task_template(ws, source) ==
    [tasks |-> IF Len(source) = 0 THEN <<>>
               ELSE [k \in 1..Len(source) |-> task_post_data(ws, source[k])]]

\* json.dump of a dict: its members in the order of the keys
JsonObject(d, keys) ==
    [k \in 1..Len(keys) |-> [key |-> keys[k], value |-> d[keys[k]]]]

\* line 147: the JSON document of a generated template
json_dump(t) ==
    <<[key   |-> "tasks",
       value |-> IF Len(t.tasks) = 0 THEN <<>>
                 ELSE [k \in 1..Len(t.tasks) |-> JsonObject(t.tasks[k], TaskSpecKeys)]]>>

\* json.load of an object: the dict of its members
JsonDict(members) ==
    [key \in {members[k].key : k \in 1..Len(members)} |->
        members[CHOOSE k \in 1..Len(members) : members[k].key = key].value]

\* line 157: the template read back from a generated file
json_load(doc) ==
    LET entries == JsonDict(doc).tasks
    IN  [tasks |-> IF Len(entries) = 0 THEN <<>>
                   ELSE [k \in 1..Len(entries) |-> JsonDict(entries[k])]]

\* lines 378-380 with list_workspaces (50-76): choice "1"
MenuPull ==
    /\ pc = "main_menu"
    /\ \E o \in GetOutcomes, body \in WorkspaceBodies :
         /\ outcome' = o
         /\ log' = Append(log, Request("GET", "/workspaces", None))
         /\ LET workspaces_data == get_data(o, body)
            IN  IF ~Truthy(workspaces_data) \/ "workspaces" \notin DOMAIN workspaces_data
                  THEN workspace' = None /\ pc' = "returned"
                ELSE IF ~TruthyList(workspaces_data.workspaces)
                  THEN workspace' = None /\ pc' = "returned"
                  ELSE workspace' = workspaces_data.workspaces[1] /\ pc' = "list_projects"
    /\ UNCHANGED <<error, API_KEY, templates_dir, source_tasks, project, tasks, clock, sleeps, template,
                   due_date_delta, project_id, use_autoschedule, schedules,
                   schedule_choice, selected_schedule, i, task_successes,
                   task_failures, post_payload, response>>

\* lines 388-390 and 394-396 with get_template_filename_from_user (343-366): there
\* is no template file, or the answer is blank; a template is generated instead
NoTemplateChosen ==
    /\ pc = "load_template"
    /\ pc' = "list_projects"
    /\ UNCHANGED <<error, API_KEY, templates_dir, source_tasks, project, tasks, clock, log, sleeps, outcome,
                   workspace, template,
                   due_date_delta, project_id, use_autoschedule, schedules,
                   schedule_choice, selected_schedule, i, task_successes,
                   task_failures, post_payload, response>>

\* lines 388-393 with load_template (153-166): the generated file is chosen and read
LoadGenerated ==
    /\ pc = "load_template"
    /\ Len(templates_dir) > 0
    /\ template' = json_load(templates_dir[1])
    /\ pc' = IF Truthy(json_load(templates_dir[1])) THEN "validate" ELSE "returned"
    /\ UNCHANGED <<error, API_KEY, templates_dir, source_tasks, project, tasks, clock, log, sleeps, outcome,
                   workspace,
                   due_date_delta, project_id, use_autoschedule, schedules,
                   schedule_choice, selected_schedule, i, task_successes,
                   task_failures, post_payload, response>>

\* lines 381 and 396 with list_projects (79-105)
ListProjects ==
    /\ pc = "list_projects"
    /\ \E o \in GetOutcomes, body \in ProjectBodies :
         /\ outcome' = o
         /\ log' = Append(log, Request("GET", "/projects", [workspaceId |-> workspace.id]))
         /\ LET projects_data == get_data(o, body)
            IN  IF ~Truthy(projects_data) \/ "projects" \notin DOMAIN projects_data
                  THEN project' = None /\ pc' = "returned"
                ELSE IF ~TruthyList(projects_data.projects)
                  THEN project' = None /\ pc' = "returned"
                  ELSE project' = projects_data.projects[1] /\ pc' = "get_tasks"
    /\ UNCHANGED <<error, API_KEY, templates_dir, source_tasks, tasks, clock, sleeps, workspace, template,
                   due_date_delta, project_id, use_autoschedule, schedules,
                   schedule_choice, selected_schedule, i, task_successes,
                   task_failures, post_payload, response>>

\* lines 383 and 398 with get_tasks_for_project (108-117)
GetTasks ==
    /\ pc = "get_tasks"
    /\ \E o \in GetOutcomes, body \in TaskBodies :
         /\ outcome' = o
         /\ log' = Append(log, Request("GET", "/tasks", [projectId |-> project.id]))
         /\ LET tasks_data == get_data(o, body)
            IN  tasks' = IF ~Truthy(tasks_data) \/ "tasks" \notin DOMAIN tasks_data
                           THEN <<>> ELSE tasks_data.tasks
    /\ pc' = "generate"
    /\ UNCHANGED <<error, API_KEY, templates_dir, source_tasks, project, clock, sleeps, workspace, template,
                   due_date_delta, project_id, use_autoschedule, schedules,
                   schedule_choice, selected_schedule, i, task_successes,
                   task_failures, post_payload, response>>

\* lines 384 and 399 with generate_task_template (119-150): the file is
\* written, unless open or write raises IOError
Generate ==
    /\ pc = "generate"
    /\ \E w \in WriteOutcomes :
         IF w = "written"
           THEN /\ templates_dir' = <<json_dump(generate_task_template(workspace, tasks))>>
                /\ source_tasks' = tasks
           ELSE UNCHANGED <<templates_dir, source_tasks>>
    /\ pc' = "returned"
    /\ UNCHANGED <<error, API_KEY, project, tasks, clock, log, sleeps, outcome,
                   workspace, template,
                   due_date_delta, project_id, use_autoschedule, schedules,
                   schedule_choice, selected_schedule, i, task_successes,
                   task_failures, post_payload, response>>

(* create_tasks_from_template: run parameters *)

\* lines 220-222
Validate ==
    /\ pc = "validate"
    /\ pc' = IF ~Truthy(template) \/ "tasks" \notin DOMAIN template
               THEN "returned" ELSE "read_offset"
    /\ UNCHANGED <<error, API_KEY, templates_dir, source_tasks, project, tasks, clock, log, sleeps, outcome, workspace, template,
                   due_date_delta, project_id, use_autoschedule, schedules,
                   schedule_choice, selected_schedule, i, task_successes,
                   task_failures, post_payload, response>>

\* lines 224-227: the answer is kept as typed
ReadOffset ==
    /\ pc = "read_offset"
    /\ \E answer \in OffsetInputs : due_date_delta' = answer
    /\ selected_schedule' = NoneStr
    /\ pc' = "convert_offset"
    /\ UNCHANGED <<error, API_KEY, templates_dir, source_tasks, project, tasks, clock, log, sleeps, outcome, workspace, template,
                   project_id, use_autoschedule, schedules,
                   schedule_choice, i, task_successes,
                   task_failures, post_payload, response>>

\* lines 228-235 (and 176-183): int() of a non-empty answer, 0 for a blank one
\* and after a ValueError
OffsetDays(answer) ==
    IF answer # ""
      THEN IF answer \in IntLiterals THEN IntValue(answer) ELSE 0
      ELSE 0

ConvertOffset ==
    /\ pc = "convert_offset"
    /\ due_date_delta' = OffsetDays(due_date_delta)
    /\ pc' = "ask_project"
    /\ UNCHANGED <<error, API_KEY, templates_dir, source_tasks, project, tasks, clock, log, sleeps, outcome, workspace, template,
                   project_id, use_autoschedule, schedules,
                   schedule_choice, selected_schedule, i, task_successes,
                   task_failures, post_payload, response>>

\* lines 237-239
AskProject ==
    /\ pc = "ask_project"
    /\ \E answer \in YesNoInputs :
         pc' = IF Lower(answer) = "y" THEN "create_project" ELSE "ask_autoschedule"
    /\ project_id' = NoneStr
    /\ UNCHANGED <<error, API_KEY, templates_dir, source_tasks, project, tasks, clock, log, sleeps, outcome, workspace, template,
                   due_date_delta, use_autoschedule, schedules,
                   schedule_choice, selected_schedule, i, task_successes,
                   task_failures, post_payload, response>>

\* lines 185-192
ProjectPriority(answer) ==
    IF answer = "" THEN "MEDIUM"
    ELSE IF answer \notin {"asap", "high", "medium", "low"} THEN "MEDIUM"
    ELSE CASE answer = "asap" -> "ASAP" [] answer = "high" -> "HIGH"
           [] answer = "medium" -> "MEDIUM" [] answer = "low" -> "LOW"

\* lines 200-205
ProjectPayload(project_name, priority) ==
    [name |-> project_name, workspaceId |-> workspace.id, priority |-> priority,
     dueDate |-> ReplaceUtcOffset(isoformat(
                    IF due_date_delta # 0 THEN AddDays(utcnow, due_date_delta) ELSE utcnow))]

\* line 240 with create_project (169-215)
CreateProject ==
    /\ pc = "create_project"
    /\ \E project_name \in ProjectNameInputs, answer \in PriorityInputs, o \in PostOutcomes :
         IF project_name = ""
           THEN /\ project_id' = NoneStr
                /\ pc' = "ask_autoschedule"
                /\ UNCHANGED <<error, log, outcome>>
           ELSE IF due_date_delta # 0 /\ AddDaysOverflows(utcnow, due_date_delta)
           THEN /\ error' = "OverflowError"
                /\ pc' = "crashed"
                /\ UNCHANGED <<project_id, log, outcome>>
           ELSE LET reply == post_data(o, "p1")
                IN  /\ log' = Append(log, Request("POST", "/projects",
                                        ProjectPayload(project_name, ProjectPriority(answer))))
                    /\ outcome' = o
                    /\ project_id' = IF HasId(reply) THEN reply.id ELSE NoneStr
                    /\ pc' = "ask_autoschedule"
                    /\ error' = error
    /\ UNCHANGED <<API_KEY, templates_dir, source_tasks, project, tasks, clock, sleeps, workspace, template,
                   due_date_delta, use_autoschedule, schedules,
                   schedule_choice, selected_schedule, i, task_successes,
                   task_failures, post_payload, response>>

\* line 242
AskAutoschedule ==
    /\ pc = "ask_autoschedule"
    /\ \E answer \in YesNoInputs : use_autoschedule' = (Lower(answer) = "y")
    /\ pc' = "list_schedules"
    /\ UNCHANGED <<error, API_KEY, templates_dir, source_tasks, project, tasks, clock, log, sleeps, outcome, workspace, template,
                   due_date_delta, project_id, schedules,
                   schedule_choice, selected_schedule, i, task_successes,
                   task_failures, post_payload, response>>

\* lines 244-246: the schedules are listed, and the user is asked to choose
\* when there are some
ListSchedules ==
    /\ pc = "list_schedules"
    /\ \E o \in GetOutcomes, listing \in ScheduleLists :
         /\ outcome' = o
         /\ log' = Append(log, Request("GET", "/schedules", None))
         /\ schedules' = list_schedules(o, listing)
         /\ pc' = IF ~RequestFails(o) /\ TruthyList(listing)
                    THEN "choose_schedule" ELSE "start_loop"
    /\ UNCHANGED <<error, API_KEY, templates_dir, source_tasks, project, tasks, clock, sleeps, workspace, template,
                   due_date_delta, project_id, use_autoschedule,
                   schedule_choice, selected_schedule, i, task_successes,
                   task_failures, post_payload, response>>

\* mutant of ChooseSchedule: the answer 0 takes the first schedule of the listing
ChooseSchedule_ZeroTakesFirst ==
    /\ pc = "choose_schedule"
    /\ \E answer \in ScheduleInputs :
         /\ schedule_choice' = answer
         /\ IF answer = "" THEN
                pc' = "start_loop" /\ UNCHANGED selected_schedule
            ELSE IF answer \notin IntLiterals THEN
                pc' = "choose_schedule" /\ UNCHANGED selected_schedule
            ELSE IF IntValue(answer) = 0 THEN
                pc' = "start_loop" /\ selected_schedule' = schedules[1].name
            ELSE IF 1 <= IntValue(answer) /\ IntValue(answer) <= Len(schedules) THEN
                pc' = "start_loop" /\ selected_schedule' = schedules[IntValue(answer)].name
            ELSE
                pc' = "choose_schedule" /\ UNCHANGED selected_schedule
    /\ UNCHANGED <<error, API_KEY, templates_dir, source_tasks, project, tasks, clock, log, sleeps,
                   outcome, workspace, template,
                   due_date_delta, project_id, use_autoschedule, schedules,
                   i, task_successes, task_failures, post_payload, response>>

\* lines 251-270: one pass of the while loop
ChooseSchedule ==
    /\ pc = "choose_schedule"
    /\ \E answer \in ScheduleInputs :
         /\ schedule_choice' = answer
         /\ IF answer = "" THEN
                pc' = "start_loop" /\ UNCHANGED selected_schedule
            ELSE IF answer \notin IntLiterals THEN
                pc' = "choose_schedule" /\ UNCHANGED selected_schedule
            ELSE IF IntValue(answer) = 0 THEN
                pc' = "start_loop" /\ UNCHANGED selected_schedule
            ELSE IF 1 <= IntValue(answer) /\ IntValue(answer) <= Len(schedules) THEN
                pc' = "start_loop" /\ selected_schedule' = schedules[IntValue(answer)].name
            ELSE
                pc' = "choose_schedule" /\ UNCHANGED selected_schedule
    /\ UNCHANGED <<error, API_KEY, templates_dir, source_tasks, project, tasks, clock, log, sleeps, outcome, workspace, template,
                   due_date_delta, project_id, use_autoschedule, schedules,
                   i, task_successes, task_failures, post_payload, response>>

(* create_tasks_from_template: the dispatch loop *)

DELAY_SECONDS == 8

\* the Task Spec of the current iteration: enumerate counts from 0
task_data == template.tasks[i + 1]

\* lines 272-278
StartLoop ==
    /\ pc = "start_loop"
    /\ task_successes' = 0
    /\ task_failures' = 0
    /\ i' = 0
    /\ pc' = "loop"
    /\ UNCHANGED <<error, API_KEY, templates_dir, source_tasks, project, tasks, clock, log, sleeps, outcome, workspace, template,
                   due_date_delta, project_id, use_autoschedule, schedules,
                   schedule_choice, selected_schedule, post_payload, response>>

\* lines 281-282
original_due_date(td) == Get(td, "dueDate", FALLBACK_DUE_DATE)

\* lines 284-299: the exception that leaves the iteration, "" when there is none.
\* Only ValueError is caught (line 287).
DeriveError(td, delta) ==
    LET odd == original_due_date(td)
    IN  IF odd = None THEN "AttributeError"
        ELSE IF IsIsoFormat(ReplaceZ(odd)) /\ AddDaysOverflows(fromisoformat(ReplaceZ(odd)), delta)
          THEN "OverflowError"
        ELSE IF "name" \notin DOMAIN td \/ "priority" \notin DOMAIN td THEN "KeyError"
        ELSE ""

\* mutant of due_date: the offset is applied only when it is positive
due_date_PositiveOffsetOnly(td, delta) ==
    LET odd == original_due_date(td)
    IN  IF IsIsoFormat(ReplaceZ(odd))
          THEN IF delta > 0 THEN AddDays(fromisoformat(ReplaceZ(odd)), delta)
                            ELSE fromisoformat(ReplaceZ(odd))
          ELSE utcnow

\* lines 284-289
due_date(td, delta) ==
    LET odd == original_due_date(td)
    IN  IF IsIsoFormat(ReplaceZ(odd))
          THEN AddDays(fromisoformat(ReplaceZ(odd)), delta)
          ELSE utcnow

\* line 291
due_date_str(td, delta) == ReplaceUtcOffset(isoformat(due_date(td, delta)))

\* mutant of AutoScheduled: the start date is the time the batch started
AutoScheduled_BatchStart(schedule) ==
    [startDate |-> IsoStr(StartOrdinal, 0, ""),
     deadlineType |-> "SOFT",
     schedule |-> schedule]

\* lines 306-310 and 312-316
AutoScheduled(schedule) ==
    [startDate |-> ReplaceUtcOffset(isoformat(utcnow)),
     deadlineType |-> "SOFT",
     schedule |-> schedule]

\* mutant of WithProject: the key is set whatever project_id holds
WithProject_Always(payload, pid) == payload @@ ("projectId" :> pid)

\* lines 302-303
WithProject(payload, pid) ==
    IF TruthyStr(pid) THEN payload @@ ("projectId" :> pid) ELSE payload

\* lines 305-316
WithSchedule(payload, selected, flag) ==
    IF TruthyStr(selected)
      THEN payload @@ ("autoScheduled" :> AutoScheduled(selected))
    ELSE IF flag /\ ~TruthyStr(selected)
      THEN payload @@ ("autoScheduled" :> AutoScheduled("Work Hours"))
    ELSE payload

\* lines 294-316
Payload(td, delta, pid, selected, flag) ==
    WithSchedule(
        WithProject(
            [name |-> td.name,
             workspaceId |-> workspace.id,
             dueDate |-> due_date_str(td, delta),
             duration |-> Get(td, "duration", 30),
             priority |-> td.priority],
            pid),
        selected, flag)

\* mutant of Derive: the offset is added to the run parameter at every task
Derive_AccumulatesOffset ==
    /\ pc = "loop"
    /\ i < Len(template.tasks)
    /\ IF DeriveError(task_data, due_date_delta) # ""
         THEN /\ error' = DeriveError(task_data, due_date_delta)
              /\ pc' = "crashed"
              /\ UNCHANGED <<post_payload, due_date_delta>>
         ELSE /\ post_payload' = Payload(task_data, due_date_delta, project_id,
                                         selected_schedule, use_autoschedule)
              /\ due_date_delta' = due_date_delta + due_date_delta
              /\ pc' = "post"
              /\ error' = error
    /\ UNCHANGED <<API_KEY, templates_dir, source_tasks, project, tasks, clock, log, sleeps, outcome,
                   workspace, template,
                   project_id, use_autoschedule, schedules,
                   schedule_choice, selected_schedule, i, task_successes,
                   task_failures, response>>

\* lines 279-316: the iteration up to the request, or the uncaught exception
Derive ==
    /\ pc = "loop"
    /\ i < Len(template.tasks)
    /\ IF DeriveError(task_data, due_date_delta) # ""
         THEN /\ error' = DeriveError(task_data, due_date_delta)
              /\ pc' = "crashed"
              /\ UNCHANGED post_payload
         ELSE /\ post_payload' = Payload(task_data, due_date_delta, project_id,
                                         selected_schedule, use_autoschedule)
              /\ pc' = "post"
              /\ error' = error
    /\ UNCHANGED <<API_KEY, templates_dir, source_tasks, project, tasks, clock, log, sleeps, outcome, workspace, template,
                   due_date_delta, project_id, use_autoschedule, schedules,
                   schedule_choice, selected_schedule, i, task_successes,
                   task_failures, response>>

\* lines 318-319
Post ==
    /\ pc = "post"
    /\ \E o \in PostOutcomes :
         /\ outcome' = o
         /\ response' = post_data(o, "t1")
    /\ log' = Append(log, Request("POST", "/tasks", post_payload) @@ ("index" :> i))
    /\ pc' = "count"
    /\ UNCHANGED <<error, API_KEY, templates_dir, source_tasks, project, tasks, clock, sleeps, workspace, template,
                   due_date_delta, project_id, use_autoschedule, schedules,
                   schedule_choice, selected_schedule, i, task_successes,
                   task_failures, post_payload>>

\* mutant of Count: only the None sentinel counts as a failure, a body without
\* id is not counted
Count_BodyWithoutIdUncounted ==
    /\ pc = "count"
    /\ IF HasId(response)
         THEN task_successes' = task_successes + 1 /\ UNCHANGED task_failures
         ELSE IF response = None
         THEN task_failures' = task_failures + 1 /\ UNCHANGED task_successes
         ELSE UNCHANGED <<task_successes, task_failures>>
    /\ pc' = "sleep"
    /\ UNCHANGED <<error, API_KEY, templates_dir, source_tasks, project, tasks, clock, log, sleeps, outcome, workspace, template,
                   due_date_delta, project_id, use_autoschedule, schedules,
                   schedule_choice, selected_schedule, i, post_payload, response>>

\* mutant of Count: any decoded body that is truthy counts as a success
Count_AnyBodySucceeds ==
    /\ pc = "count"
    /\ IF Truthy(response)
         THEN task_successes' = task_successes + 1 /\ UNCHANGED task_failures
         ELSE task_failures' = task_failures + 1 /\ UNCHANGED task_successes
    /\ pc' = "sleep"
    /\ UNCHANGED <<error, API_KEY, templates_dir, source_tasks, project, tasks, clock, log, sleeps, outcome, workspace, template,
                   due_date_delta, project_id, use_autoschedule, schedules,
                   schedule_choice, selected_schedule, i, post_payload, response>>

\* mutant of Count: a failure takes back the successes counted before it
Count_FailureUndoesSuccess ==
    /\ pc = "count"
    /\ IF HasId(response)
         THEN task_successes' = task_successes + 1 /\ UNCHANGED task_failures
         ELSE task_failures' = task_failures + 1 /\ task_successes' = 0
    /\ pc' = "sleep"
    /\ UNCHANGED <<error, API_KEY, templates_dir, source_tasks, project, tasks, clock, log, sleeps, outcome,
                   workspace, template,
                   due_date_delta, project_id, use_autoschedule, schedules,
                   schedule_choice, selected_schedule, i, post_payload, response>>

\* lines 321-327
Count ==
    /\ pc = "count"
    /\ IF HasId(response)
         THEN task_successes' = task_successes + 1 /\ UNCHANGED task_failures
         ELSE task_failures' = task_failures + 1 /\ UNCHANGED task_successes
    /\ pc' = "sleep"
    /\ UNCHANGED <<error, API_KEY, templates_dir, source_tasks, project, tasks, clock, log, sleeps, outcome, workspace, template,
                   due_date_delta, project_id, use_autoschedule, schedules,
                   schedule_choice, selected_schedule, i, post_payload, response>>

\* mutant of Sleep: a failed submission is retried instead of left behind
Sleep_RetryOnFailure ==
    /\ pc = "sleep"
    /\ sleeps' = Append(sleeps, DELAY_SECONDS)
    /\ clock' = clock + DELAY_SECONDS
    /\ i' = IF HasId(response) THEN i + 1 ELSE i
    /\ pc' = "loop"
    /\ UNCHANGED <<error, API_KEY, templates_dir, source_tasks, project, tasks, log, outcome, workspace, template,
                   due_date_delta, project_id, use_autoschedule, schedules,
                   schedule_choice, selected_schedule, task_successes,
                   task_failures, post_payload, response>>

\* mutant of Sleep: no sleep after the last Task Spec
Sleep_NotAfterLast ==
    /\ pc = "sleep"
    /\ IF i + 1 < Len(template.tasks)
         THEN sleeps' = Append(sleeps, DELAY_SECONDS) /\ clock' = clock + DELAY_SECONDS
         ELSE UNCHANGED <<sleeps, clock>>
    /\ i' = i + 1
    /\ pc' = "loop"
    /\ UNCHANGED <<error, API_KEY, templates_dir, source_tasks, project, tasks, log, outcome, workspace, template,
                   due_date_delta, project_id, use_autoschedule, schedules,
                   schedule_choice, selected_schedule, task_successes,
                   task_failures, post_payload, response>>

\* mutant of Sleep: the delay is taken after a failed submission only
Sleep_OnlyAfterFailure ==
    /\ pc = "sleep"
    /\ IF HasId(response)
         THEN UNCHANGED <<sleeps, clock>>
         ELSE sleeps' = Append(sleeps, DELAY_SECONDS) /\ clock' = clock + DELAY_SECONDS
    /\ i' = i + 1
    /\ pc' = "loop"
    /\ UNCHANGED <<error, API_KEY, templates_dir, source_tasks, project, tasks, log, outcome,
                   workspace, template,
                   due_date_delta, project_id, use_autoschedule, schedules,
                   schedule_choice, selected_schedule, task_successes,
                   task_failures, post_payload, response>>

\* line 329, then the next element of enumerate (line 279)
Sleep ==
    /\ pc = "sleep"
    /\ sleeps' = Append(sleeps, DELAY_SECONDS)
    /\ clock' = clock + DELAY_SECONDS
    /\ i' = i + 1
    /\ pc' = "loop"
    /\ UNCHANGED <<error, API_KEY, templates_dir, source_tasks, project, tasks, log, outcome, workspace, template,
                   due_date_delta, project_id, use_autoschedule, schedules,
                   schedule_choice, selected_schedule, task_successes,
                   task_failures, post_payload, response>>

\* line 331: the list is exhausted, the summary is printed
Summary ==
    /\ pc = "loop"
    /\ i >= Len(template.tasks)
    /\ pc' = "done"
    /\ UNCHANGED <<error, API_KEY, templates_dir, source_tasks, project, tasks, clock, log, sleeps, outcome, workspace, template,
                   due_date_delta, project_id, use_autoschedule, schedules,
                   schedule_choice, selected_schedule, i, task_successes,
                   task_failures, post_payload, response>>

Next ==
    \/ Import
    \/ MenuOther
    \/ MenuReplay
    \/ LoadTemplate
    \/ BackToMenu
    \/ Validate
    \/ ReadOffset
    \/ ConvertOffset
    \/ AskProject
    \/ CreateProject
    \/ AskAutoschedule
    \/ ListSchedules
    \/ ChooseSchedule
    \/ StartLoop
    \/ Derive
    \/ Post
    \/ Count
    \/ Sleep
    \/ Summary

Spec == Init /\ [][Next]_vars

\* a session that starts with an empty templates directory: the templates
\* replayed are the ones generated from the tasks of the remote service
NextRoundTrip ==
    \/ Import
    \/ MenuOther
    \/ MenuPull
    \/ MenuReplay
    \/ NoTemplateChosen
    \/ LoadGenerated
    \/ ListProjects
    \/ GetTasks
    \/ Generate
    \/ BackToMenu
    \/ Validate
    \/ ReadOffset
    \/ ConvertOffset
    \/ AskProject
    \/ CreateProject
    \/ AskAutoschedule
    \/ ListSchedules
    \/ ChooseSchedule
    \/ StartLoop
    \/ Derive
    \/ Post
    \/ Count
    \/ Sleep
    \/ Summary

SpecRoundTrip == Init /\ [][NextRoundTrip]_vars

(* Properties *)

\* the create-task requests of the run, in the order the service received them
TaskPosts == SelectSeq(log, LAMBDA r : r.method = "POST" /\ r.url = "/tasks")

\* the create requests of the menu action
CreatePosts == SelectSeq(log, LAMBDA r : r.method = "POST")

\* an uncaught exception left create_tasks_from_template
RaisedInDispatcher == pc = "crashed" /\ error \in {"KeyError", "AttributeError", "OverflowError"}

\* the exception was raised in an iteration of the loop (the schedules were listed)
RaisedInLoop ==
    /\ RaisedInDispatcher
    /\ \E k \in 1..Len(log) : log[k].url = "/schedules"

\* C1: a dispatch run over N Task Specs reaches its summary with
\* task_successes + task_failures = N, whatever the gateway did with each
\* request; until then the two counters account for the requests counted so far.
C1_CountersSumToN ==
    /\ pc = "done" => task_successes + task_failures = Len(template.tasks)
    /\ pc \in {"loop", "post", "count", "sleep"} =>
          task_successes + task_failures
             = Len(TaskPosts) - (IF pc = "count" THEN 1 ELSE 0)

\* C1 witness: a run over two Task Specs ended with one success and one failure
C1_Witness ==
    /\ pc = "done"
    /\ Len(template.tasks) = 2
    /\ task_successes = 1
    /\ task_failures = 1

\* C2: no exception leaves the dispatcher: once the template has passed the
\* validation, whatever fields its Task Specs have or lack and whatever the
\* gateway returns, no iteration of the loop ends the run in an uncaught
\* exception. (The OverflowError of an offset that takes a date out of the
\* range of datetime does not come from the Task Spec or the gateway and is
\* left aside here.)
C2_NeverRaises == ~(RaisedInLoop /\ error # "OverflowError")

\* C3: the Task Specs are submitted once each and in template order: the k-th
\* create-task request is the one of index k-1 and carries the name of the k-th
\* Task Spec (no retry, no skip), and at the summary all N have been submitted,
\* failed ones included.
C3_SubmittedOnceInOrder ==
    LET posts == TaskPosts
    IN  /\ \A k \in 1..Len(posts) :
              /\ posts[k].index = k - 1
              /\ k <= Len(template.tasks)
              /\ posts[k].body.name = template.tasks[k].name
        /\ pc = "done" => Len(posts) = Len(template.tasks)

\* C3 witness: both submissions of a run over two Task Specs failed, and both
\* were made
C3_Witness ==
    /\ pc = "done"
    /\ Len(template.tasks) = 2
    /\ task_failures = 2
    /\ Len(TaskPosts) = 2

\* C4: every submission is followed by one sleep of DELAY_SECONDS (8 s), the
\* last one too and whatever the outcome: the sleeps done are as many as the
\* submissions whose outcome was counted and slept on, N at the summary, and
\* two submissions in a row are at least 8 s apart.
C4_SleepAfterEverySubmission ==
    LET posts == TaskPosts
    IN  /\ \A k \in 1..Len(sleeps) : sleeps[k] = 8
        /\ pc \in {"loop", "post", "done"} => Len(sleeps) = Len(posts)
        /\ pc \in {"count", "sleep"} => Len(sleeps) = Len(posts) - 1
        /\ RaisedInLoop => Len(sleeps) = Len(posts)
        /\ pc = "done" => Len(sleeps) = Len(template.tasks)
        /\ \A k \in 2..Len(posts) : posts[k].at >= posts[k - 1].at + 8

\* C4 witness: a run over two Task Specs ended after a failed last submission
\* and two sleeps
C4_Witness ==
    /\ pc = "done"
    /\ Len(template.tasks) = 2
    /\ ~HasId(response)
    /\ Len(sleeps) = 2

\* C5: counting a submission changes exactly one counter by one:
\* task_successes when the decoded body has an id, task_failures after a
\* transport fault or a non-2xx status (both None from post_data) and after a
\* body without id; the run goes on to its sleep in every case, and no other
\* step of the loop changes a counter.
C5_CountStep ==
    /\ pc = "count" =>
          /\ outcome \in {"transport_fault", "http_error"} => response = None
          /\ IF outcome = "body_id"
               THEN task_successes' = task_successes + 1 /\ task_failures' = task_failures
               ELSE task_failures' = task_failures + 1 /\ task_successes' = task_successes
          /\ pc' = "sleep"
    /\ pc \in {"loop", "post", "sleep"} =>
          task_successes' = task_successes /\ task_failures' = task_failures

C5_OneCounterPerSubmission == [][C5_CountStep]_vars

\* C5 witness: a body without id has just been counted as the failure of the
\* second submission, after a success
C5_Witness ==
    /\ pc = "sleep"
    /\ outcome = "body_no_id"
    /\ task_successes = 1
    /\ task_failures = 1

\* the user picked an entry of the schedule listing (line 264)
ExplicitScheduleSelected ==
    /\ schedule_choice \in IntLiterals
    /\ 1 <= IntValue(schedule_choice)
    /\ IntValue(schedule_choice) <= Len(schedules)

\* C6: schedule precedence in every payload: with an explicit schedule the
\* block names that schedule, whatever the flag; without one and with the flag
\* it names "Work Hours"; with neither the payload has no autoScheduled key.
C6_SchedulePrecedence ==
    pc = "post" =>
       IF ExplicitScheduleSelected
         THEN /\ "autoScheduled" \in DOMAIN post_payload
              /\ post_payload.autoScheduled.schedule = schedules[IntValue(schedule_choice)].name
         ELSE IF use_autoschedule
         THEN /\ "autoScheduled" \in DOMAIN post_payload
              /\ post_payload.autoScheduled.schedule = "Work Hours"
         ELSE "autoScheduled" \notin DOMAIN post_payload

\* the Task Spec has a dueDate that is not an ISO-8601 string
UnparseableDueDate(td) ==
    /\ "dueDate" \in DOMAIN td
    /\ \/ td.dueDate = None
       \/ td.dueDate.kind # "iso"

\* C7: an unparseable dueDate is recovered per task: the iteration does not
\* raise, and its payload carries the current UTC time as dueDate.
C7_UnparseableDateRecovered ==
    /\ (pc = "crashed" /\ error = "AttributeError") => ~UnparseableDueDate(task_data)
    /\ (pc = "post" /\ UnparseableDueDate(task_data)) =>
          /\ post_payload.dueDate.ord = StartOrdinal + (clock \div 86400)
          /\ post_payload.dueDate.sec = clock % 86400

\* C8 (payloads): when the dueDate of the Task Spec parses, or is absent and
\* 2024-12-31T23:59:59Z stands in, the payload's dueDate is that instant moved
\* by the offset in days, same time of day.
C8_PayloadDate ==
    pc = "post" =>
       LET source == IF "dueDate" \in DOMAIN task_data
                       THEN task_data.dueDate
                       ELSE [kind |-> "iso", ord |-> 739251, sec |-> 86399, zone |-> "Z"]
       IN  (source # None /\ source.kind = "iso") =>
              /\ post_payload.dueDate.kind = "iso"
              /\ post_payload.dueDate.ord = source.ord + due_date_delta
              /\ post_payload.dueDate.sec = source.sec

\* C8 (input): a blank or non-integer answer becomes the offset 0, an integer
\* answer its value
C8_ConvertStep ==
    pc = "convert_offset" =>
       /\ due_date_delta \in {"", "abc", "1.5"} => due_date_delta' = 0
       /\ due_date_delta = "-1" => due_date_delta' = 0 - 1
       /\ due_date_delta = "2" => due_date_delta' = 2

\* C8: the offset law, for every offset of the run including 0 and negative ones
C8_OffsetLaw == []C8_PayloadDate /\ [][C8_ConvertStep]_vars

\* C8 witness: a Task Spec without dueDate is about to be submitted under a
\* negative offset, with the fallback date moved one day back
C8_Witness ==
    /\ pc = "post"
    /\ "dueDate" \notin DOMAIN task_data
    /\ due_date_delta = 0 - 1
    /\ post_payload.dueDate.ord = 739250

\* C9: the dueDate of every payload sent ends in the literal Z
C9_DueDateHasZSuffix ==
    \A k \in 1..Len(TaskPosts) : TaskPosts[k].body.dueDate.zone = "Z"

\* the template is None, an empty object, lacks the tasks key or has no Task Spec
EmptyOrMalformed(t) ==
    \/ t = None
    \/ DOMAIN t = {}
    \/ "tasks" \notin DOMAIN t
    \/ Len(t.tasks) = 0

\* C10: an empty or malformed template is rejected before any dispatch: once
\* it is loaded, the replay sends no create request (project or task).
C10_NoCreateForRejectedTemplate ==
    EmptyOrMalformed(template) => Len(CreatePosts) = 0

\* C11 (payloads): every payload of the run has the projectId key exactly when
\* the run holds a project id, and then it carries that id.
C11_Payloads ==
    \A k \in 1..Len(TaskPosts) :
       IF project_id # "<None>"
         THEN /\ "projectId" \in DOMAIN TaskPosts[k].body
              /\ TaskPosts[k].body.projectId = project_id
         ELSE "projectId" \notin DOMAIN TaskPosts[k].body

\* C11 (the id): the run holds a project id only after a create-project request
\* that was answered with an id; declining, an empty project name and a failed
\* request leave it without one, and the run goes on to its tasks all the same.
C11_ProjectStep ==
    /\ pc = "ask_project" => project_id' = "<None>"
    /\ (pc = "create_project" /\ pc' # "crashed") =>
          /\ pc' = "ask_autoschedule"
          /\ IF Len(log') = Len(log) + 1 /\ outcome' = "body_id"
               THEN project_id' = "p1"
               ELSE project_id' = "<None>"

\* C11: projectId is attached to a task payload if and only if the run holds a
\* target project id: none after a declined, skipped or failed project creation
\* (the tasks are dispatched without it), the created id in every payload after
\* a successful one.
C11_ProjectIdIffCreated == []C11_Payloads /\ [][C11_ProjectStep]_vars

\* C11 witness: the create-project request failed, and both tasks of the run
\* were dispatched without a projectId
C11_Witness ==
    /\ pc = "done"
    /\ \E k \in 1..Len(log) : log[k].url = "/projects"
    /\ project_id = "<None>"
    /\ Len(TaskPosts) = 2
    /\ "projectId" \notin DOMAIN TaskPosts[2].body

\* seconds from the start of the run to the instant a date string names
SecondsOf(s) == (s.ord - StartOrdinal) * 86400 + s.sec

\* C12: the startDate of each autoScheduled block is the clock value of that
\* task's own iteration (the instant of its submission), not the one of the
\* batch start; so the startDate of a task is never before the one of the task
\* submitted before it.
C12_StartDatePerIteration ==
    LET posts == TaskPosts
    IN  /\ \A k \in 1..Len(posts) :
              "autoScheduled" \in DOMAIN posts[k].body =>
                 SecondsOf(posts[k].body.autoScheduled.startDate) = posts[k].at
        /\ \A k \in 2..Len(posts) :
              ("autoScheduled" \in DOMAIN posts[k].body
                  /\ "autoScheduled" \in DOMAIN posts[k - 1].body) =>
                 SecondsOf(posts[k].body.autoScheduled.startDate)
                    >= SecondsOf(posts[k - 1].body.autoScheduled.startDate)

\* C12 witness: two tasks were submitted with an autoScheduled block, the
\* second with a later startDate than the first
C12_Witness ==
    /\ Len(TaskPosts) = 2
    /\ "autoScheduled" \in DOMAIN TaskPosts[1].body
    /\ "autoScheduled" \in DOMAIN TaskPosts[2].body
    /\ SecondsOf(TaskPosts[2].body.autoScheduled.startDate)
          > SecondsOf(TaskPosts[1].body.autoScheduled.startDate)

\* C13: without an API key (unset or empty) the process aborts at its start:
\* the menu is never shown and no request is ever sent; every request that is
\* sent carries the key of the process, which is not empty.
C13_NoKeyNoRequest ==
    /\ API_KEY \in {"<None>", ""} =>
          /\ pc \in {"import", "crashed"}
          /\ pc = "crashed" => error = "EnvironmentError"
          /\ Len(log) = 0
    /\ \A k \in 1..Len(log) :
          /\ log[k].key = API_KEY
          /\ log[k].key \notin {"<None>", ""}

\* C13 witness: the process was started with an empty key and has aborted
C13_Witness ==
    /\ API_KEY = ""
    /\ pc = "crashed"
    /\ error = "EnvironmentError"
    /\ Len(log) = 0

\* the requests of create_tasks_from_template: create-project, list-schedules
\* and create-task
RunRequests == SelectSeq(log, LAMBDA r : r.url # "/workspaces")

\* the requests among rr received in the 60 seconds that start with the a-th
InWindow(rr, a) ==
    {b \in 1..Len(rr) : rr[b].at >= rr[a].at /\ rr[b].at < rr[a].at + 60}

\* C14: two consecutive create-task requests of a run are at least 8 seconds
\* apart, and no window of 60 seconds holds more than 12 requests of the run,
\* the create-project and list-schedules requests before the first task
\* counted in.
C14_RateLimit ==
    LET posts == TaskPosts
        rr == RunRequests
    IN  /\ \A k \in 2..Len(posts) : posts[k].at - posts[k - 1].at >= 8
        /\ \A a \in 1..Len(rr) : Cardinality(InWindow(rr, a)) <= 12

\* C14 witness: a run of more than 60 seconds whose first window holds the
\* create-project request, the schedule listing and eight create-task requests
C14_Witness ==
    /\ Len(TaskPosts) >= 9
    /\ RunRequests[1].url = "/projects"
    /\ RunRequests[2].url = "/schedules"
    /\ Cardinality(InWindow(RunRequests, 1)) = 10

\* C15 (steps): no step of the loop lowers a counter, and counting a failed
\* submission leaves task_successes as it was
C15_NoRollbackStep ==
    /\ pc \in {"loop", "post", "count", "sleep"} =>
          /\ task_successes' >= task_successes
          /\ task_failures' >= task_failures
    /\ (pc = "count" /\ outcome # "body_id") => task_successes' = task_successes

\* C15 (states): the run sends nothing but GET requests and create requests,
\* and at the start of the iteration of index i the counters add up to i, the
\* number of create-task requests sent so far
C15_Accounting ==
    /\ \A k \in 1..Len(log) :
          /\ log[k].method \in {"GET", "POST"}
          /\ log[k].method = "POST" => log[k].url \in {"/projects", "/tasks"}
    /\ pc = "loop" =>
          /\ task_successes + task_failures = i
          /\ i = Len(TaskPosts)

\* C15: no rollback: the counters never decrease during a run, a failure does
\* not undo earlier successes, no request deletes or modifies a task, and every
\* iteration starts with task_successes + task_failures = i = requests sent.
C15_NoRollback == []C15_Accounting /\ [][C15_NoRollbackStep]_vars

\* C15 witness: the third iteration is about to start after a success followed
\* by a failure, and the success still counts
C15_Witness ==
    /\ pc = "loop"
    /\ i = 2
    /\ outcome # "body_id"
    /\ task_successes = 1
    /\ task_failures = 1

\* positions of create_tasks_from_template, from its first line to its last
InRun ==
    pc \in {"validate", "read_offset", "convert_offset", "ask_project",
            "create_project", "ask_autoschedule", "list_schedules",
            "choose_schedule", "start_loop", "loop", "post", "count", "sleep"}

\* C16: a dispatch run leaves the loaded template as it is, and in the
\* iterations of the loop the workspace, due_date_delta, project_id,
\* selected_schedule and use_autoschedule keep the values they had when the
\* loop started.
C16_Step ==
    /\ InRun => template' = template /\ workspace' = workspace
    /\ pc \in {"loop", "post", "count", "sleep"} =>
          /\ due_date_delta' = due_date_delta
          /\ project_id' = project_id
          /\ selected_schedule' = selected_schedule
          /\ use_autoschedule' = use_autoschedule

C16_RunLeavesInputsUnchanged == [][C16_Step]_vars

\* C16 witness: a run with an offset, a project and a schedule reached its
\* summary after two tasks
C16_Witness ==
    /\ pc = "done"
    /\ Len(TaskPosts) = 2
    /\ due_date_delta = 2
    /\ project_id = "p1"
    /\ selected_schedule = "Night"
    /\ TaskPosts[1].body.autoScheduled.schedule = "Night"
    /\ TaskPosts[2].body.projectId = "p1"

\* the Task Spec entries of the template file
FileEntries == templates_dir[1][1].value

\* the value the file has for a key of its k-th entry
FileValue(k, key) ==
    FileEntries[k][CHOOSE m \in 1..Len(FileEntries[k]) : FileEntries[k][m].key = key].value

\* C17 (the file written for the source tasks src in the workspace ws): one
\* entry per source task in the source order, each with exactly the keys name,
\* workspaceId, dueDate, duration, priority; a field of the source task is
\* copied unchanged, an absent one takes its default ("", 2024-12-31T23:59:59Z,
\* 30, MEDIUM); workspaceId is the id of the selected workspace.
C17_GenerateStep ==
    (pc = "generate" /\ templates_dir' # templates_dir) =>
       LET entries == templates_dir'[1][1].value
           Value(k, key) ==
               entries[k][CHOOSE m \in 1..Len(entries[k]) : entries[k][m].key = key].value
           Copied(k, key, default) ==
               Value(k, key) = IF key \in DOMAIN tasks[k] THEN tasks[k][key] ELSE default
       IN  /\ Len(templates_dir'[1]) = 1
           /\ templates_dir'[1][1].key = "tasks"
           /\ Len(entries) = Len(tasks)
           /\ \A k \in 1..Len(tasks) :
                 /\ Len(entries[k]) = 5
                 /\ {entries[k][m].key : m \in 1..5}
                       = {"name", "workspaceId", "dueDate", "duration", "priority"}
                 /\ Copied(k, "name", "")
                 /\ Copied(k, "dueDate",
                           [kind |-> "iso", ord |-> 739251, sec |-> 86399, zone |-> "Z"])
                 /\ Copied(k, "duration", 30)
                 /\ Copied(k, "priority", "MEDIUM")
                 /\ Value(k, "workspaceId") = workspace.id

C17_GeneratedTemplate == [][C17_GenerateStep]_vars

\* C17 witness: a template was written for two source tasks, the first of
\* them without any of the fields, and the file has the defaults for it
C17_Witness ==
    /\ pc = "returned"
    /\ Len(tasks) = 2
    /\ DOMAIN tasks[1] = {"id"}
    /\ "priority" \in DOMAIN tasks[2]
    /\ Len(templates_dir) = 1
    /\ source_tasks = tasks
    /\ FileValue(1, "name") = ""
    /\ FileValue(1, "duration") = 30
    /\ FileValue(1, "priority") = "MEDIUM"
    /\ FileValue(2, "priority") = tasks[2].priority

\* C18: round trip generate -> load -> replay: the replay of a generated
\* template sends one create-task payload per source task, in the source
\* order, with the name, duration and priority of the source task (or the
\* generation defaults), and no iteration stops the replay because a Task Spec
\* field is missing or unusable.
C18_RoundTrip ==
    /\ ~(pc = "crashed" /\ error \in {"KeyError", "AttributeError"})
    /\ \A k \in 1..Len(TaskPosts) :
          /\ k <= Len(source_tasks)
          /\ TaskPosts[k].body.name
                = (IF "name" \in DOMAIN source_tasks[k] THEN source_tasks[k].name ELSE "")
          /\ TaskPosts[k].body.duration
                = (IF "duration" \in DOMAIN source_tasks[k] THEN source_tasks[k].duration ELSE 30)
          /\ TaskPosts[k].body.priority
                = (IF "priority" \in DOMAIN source_tasks[k]
                     THEN source_tasks[k].priority ELSE "MEDIUM")
    /\ pc = "done" => Len(TaskPosts) = Len(source_tasks)

\* C19: a payload with an autoScheduled block has deadlineType SOFT and names
\* "Work Hours" or a schedule of the listing of this run; after a failed or
\* empty listing, a blank answer or the answer 0 no schedule is selected, and
\* a block is there only under the autoschedule flag, naming "Work Hours".
C19_ScheduleNames ==
    LET posts == TaskPosts
    IN  /\ \A k \in 1..Len(posts) :
              "autoScheduled" \in DOMAIN posts[k].body =>
                 /\ posts[k].body.autoScheduled.deadlineType = "SOFT"
                 /\ \/ posts[k].body.autoScheduled.schedule = "Work Hours"
                    \/ /\ schedule_choice # "<None>"
                       /\ \E j \in 1..Len(schedules) :
                             schedules[j].name = posts[k].body.autoScheduled.schedule
        /\ (pc \in {"start_loop", "loop", "post", "count", "sleep", "done"}
               /\ schedule_choice \in {"<None>", "", "0"}) =>
              /\ selected_schedule = "<None>"
              /\ \A k \in 1..Len(posts) :
                    "autoScheduled" \in DOMAIN posts[k].body =>
                       /\ use_autoschedule
                       /\ posts[k].body.autoScheduled.schedule = "Work Hours"

\* C19 witness: the user answered 0 to the schedule prompt under the
\* autoschedule flag, and both payloads name "Work Hours"
C19_Witness ==
    /\ Len(TaskPosts) = 2
    /\ schedule_choice = "0"
    /\ use_autoschedule
    /\ TaskPosts[1].body.autoScheduled.schedule = "Work Hours"
    /\ TaskPosts[2].body.autoScheduled.deadlineType = "SOFT"

====
